---- MODULE Spec2Model ----
(***************************************************************************)
(* Model of src/python/main.py: Store.transfer running on worker threads   *)
(* against a PostgreSQL store (READ COMMITTED, row locks taken by          *)
(* SELECT ... FOR UPDATE, one transaction per request).                    *)
(*                                                                         *)
(* Amounts and balances are Python floats.  A float is modelled as a       *)
(* record [kind, v]: kind "num" carries an integer v (exactly              *)
(* representable), kind "nan" is float('nan'), kind "none" is a missing    *)
(* row (fetchone() returned None).                                         *)
(***************************************************************************)
EXTENDS Integers, Sequences, FiniteSets, TLC

\* ---------------------------------------------------------------- bounds
MaxRequests == 2

\* ------------------------------------------------------------- constants
PoolMaxSize == 10
SeedA == 1000
SeedB == 500

Threads == {"t1", "t2"}
NoThread == "none"

\* ---------------------------------------------------------------- floats
Num(n) == [kind |-> "num", v |-> n]
NaN == [kind |-> "nan", v |-> 0]
None == [kind |-> "none", v |-> 0]

\* a - b on floats
FSub(a, b) ==
  IF a.kind = "nan" \/ b.kind = "nan" THEN NaN ELSE Num(a.v - b.v)

\* a + b on floats
FAdd(a, b) ==
  IF a.kind = "nan" \/ b.kind = "nan" THEN NaN ELSE Num(a.v + b.v)

\* a < b on floats: any comparison with nan is False
FLt(a, b) == a.kind = "num" /\ b.kind = "num" /\ a.v < b.v

\* a <= b on floats
FLe(a, b) == a.kind = "num" /\ b.kind = "num" /\ a.v <= b.v

\* ---------------------------------------------------------------- inputs
\* rows of the accounts table after seed(); "C" names no row
Existing == {"A", "B"}
AccountIds == {"", "A", "B", "C"}
OpIds == {"", "op1"}
Amounts == {Num(0), Num(400), Num(2000), NaN}

TransferRequest ==
  [from_account_id : AccountIds, to_account_id : AccountIds,
   amount : Amounts, operation_id : OpIds]

NoRequest == [from_account_id |-> "", to_account_id |-> "",
              amount |-> Num(0), operation_id |-> ""]

Results == {"success", "duplicate", "validation_error",
            "account_not_found", "insufficient_funds"}

\* ----------------------------------------------------------------- state
VARIABLES
  accounts,      \* committed accounts table: id -> balance
  ledger,        \* committed ledger table, in id order
  processed_ops, \* committed processed_ops table
  rowLock,       \* account id -> thread holding its row lock
  pc,            \* thread -> position in the handler
  req,           \* thread -> request being (or last) served
  from_row,      \* thread -> local from_row
  to_row,        \* thread -> local to_row
  new_from,      \* thread -> local new_from
  new_to,        \* thread -> local new_to
  now,           \* thread -> local now
  txAccounts,    \* thread -> uncommitted row versions written by its tx
  txLedger,      \* thread -> uncommitted ledger rows of its tx
  txOps,         \* thread -> uncommitted processed_ops rows of its tx
  outcome,       \* thread -> how its last request ended: result, the
                 \* request's operation id, and the position it ended at
  response,      \* thread -> TransferResponse built by the return statement
  transfer_requests, \* Counter: result label -> count
  account_balance,   \* Gauge: account label -> value
  clock,         \* wall clock read by datetime.utcnow()
  commits,       \* history: committed transfers, in commit order
  faulted,       \* history: operation ids of the requests that ended in a
                 \* storage error while the id was not in the registry
  nreq           \* number of requests received so far

vars == <<accounts, ledger, processed_ops, rowLock, pc, req, from_row, to_row,
          new_from, new_to, now, txAccounts, txLedger, txOps, outcome,
          response, transfer_requests, account_balance, clock, commits,
          faulted, nreq>>

store == <<accounts, ledger, processed_ops>>
locals == <<from_row, to_row, new_from, new_to, now>>
txState == <<txAccounts, txLedger, txOps>>
metricsState == <<transfer_requests, account_balance>>

NoRows == [a \in Existing |-> None]
NoBalances == [a \in AccountIds |-> None]
NoOutcome == [result |-> "none", operation_id |-> "", at |-> ""]
NoResponse == [status |-> "", message |-> "", balances |-> NoBalances]

\* Store.seed: rows A and B, gauge set from the table
seed == [a \in Existing |-> IF a = "A" THEN Num(SeedA) ELSE Num(SeedB)]

Init ==
  /\ accounts = seed
  /\ ledger = <<>>
  /\ processed_ops = {}
  /\ rowLock = [a \in Existing |-> NoThread]
  /\ pc = [t \in Threads |-> "idle"]
  /\ req = [t \in Threads |-> NoRequest]
  /\ from_row = [t \in Threads |-> None]
  /\ to_row = [t \in Threads |-> None]
  /\ new_from = [t \in Threads |-> None]
  /\ new_to = [t \in Threads |-> None]
  /\ now = [t \in Threads |-> 0]
  /\ txAccounts = [t \in Threads |-> NoRows]
  /\ txLedger = [t \in Threads |-> <<>>]
  /\ txOps = [t \in Threads |-> {}]
  /\ outcome = [t \in Threads |-> NoOutcome]
  /\ response = [t \in Threads |-> NoResponse]
  /\ transfer_requests = [r \in Results |-> 0]
  /\ account_balance = [a \in AccountIds |-> IF a \in Existing THEN seed[a] ELSE None]
  /\ clock = 0
  /\ commits = <<>>
  /\ faulted = {}
  /\ nreq = 0

\* ------------------------------------------------------------ helpers
InTx == {"dup", "lockFrom", "lockTo", "check", "updFrom", "updTo",
         "insDebit", "insCredit", "insOp", "metrics", "commit"}

\* connections of the pool that are checked out
InUse == Cardinality({t \in Threads : pc[t] \in InTx})

ValidationErrorNegativeOnly(r) ==
  IF r.from_account_id = "" \/ r.to_account_id = ""
    THEN "fromAccountId and toAccountId are required"
  ELSE IF r.from_account_id = r.to_account_id
    THEN "fromAccountId and toAccountId must differ"
  ELSE IF FLt(r.amount, Num(0))
    THEN "amount must be > 0"
  ELSE ""

\* the three validation rules, in the order the code tests them
ValidationError(r) ==
  IF r.from_account_id = "" \/ r.to_account_id = ""
    THEN "fromAccountId and toAccountId are required"
  ELSE IF r.from_account_id = r.to_account_id
    THEN "fromAccountId and toAccountId must differ"
  ELSE IF FLe(r.amount, Num(0))
    THEN "amount must be > 0"
  ELSE ""

ReleasedNever(t) == rowLock

\* row locks after thread t's transaction ended
Released(t) == [a \in Existing |-> IF rowLock[a] = t THEN NoThread ELSE rowLock[a]]

\* the row version thread t's statement sees: its own write, else the committed one
ReadRow(t, id) ==
  IF txAccounts[t][id] # None THEN txAccounts[t][id] ELSE accounts[id]

\* the request of thread t ends: pc, outcome, the locals of the call (req
\* included) and transaction state; the transaction's uncommitted rows are
\* gone and its row locks released
EndRequest(t, o, resp) ==
  /\ pc' = [pc EXCEPT ![t] = "idle"]
  /\ req' = [req EXCEPT ![t] = NoRequest]
  /\ outcome' = [outcome EXCEPT ![t] =
       [result |-> o, operation_id |-> req[t].operation_id, at |-> pc[t]]]
  /\ response' = [response EXCEPT ![t] = resp]
  /\ from_row' = [from_row EXCEPT ![t] = None]
  /\ to_row' = [to_row EXCEPT ![t] = None]
  /\ new_from' = [new_from EXCEPT ![t] = None]
  /\ new_to' = [new_to EXCEPT ![t] = None]
  /\ now' = [now EXCEPT ![t] = 0]
  /\ txAccounts' = [txAccounts EXCEPT ![t] = NoRows]
  /\ txLedger' = [txLedger EXCEPT ![t] = <<>>]
  /\ txOps' = [txOps EXCEPT ![t] = {}]
  /\ rowLock' = Released(t)

\* the history of faulted ids once a request with id op ended with o
Noted(op, o) ==
  IF op # "" /\ op \notin processed_ops /\ o \in {"storage_error", "deadlock_detected"}
    THEN faulted \cup {op}
    ELSE faulted

RollbackRecordsOp(t, o) ==
  /\ EndRequest(t, o, NoResponse)
  /\ faulted' = Noted(req[t].operation_id, o)
  /\ processed_ops' = processed_ops \cup txOps[t]
  /\ UNCHANGED <<accounts, ledger, commits>>

\* an exception leaves conn.transaction(): ROLLBACK, nothing of the tx is kept
Rollback(t, o) ==
  /\ EndRequest(t, o, NoResponse)
  /\ faulted' = Noted(req[t].operation_id, o)
  /\ UNCHANGED <<store, commits>>

Inc(label) == [transfer_requests EXCEPT ![label] = @ + 1]

\* HTTP status of POST /transfer for each way Store.transfer ends
HttpStatus(o) ==
  IF o \in {"success", "duplicate"} THEN 200
  ELSE IF o \in {"validation_error", "account_not_found", "insufficient_funds"} THEN 400
  ELSE 500

\* ------------------------------------------------------------ actions
\* POST /transfer arrives and is served by the first free worker thread
FirstFree(t) == pc[t] = "idle" /\ (t = "t2" => pc["t1"] # "idle")

\* Store.transfer is entered with request r: validation, before any
\* connection is taken
Validate(t, r) ==
  IF ValidationError(r) # ""
    THEN /\ transfer_requests' = Inc("validation_error")
         /\ outcome' = [outcome EXCEPT ![t] =
              [result |-> "validation_error", operation_id |-> r.operation_id,
               at |-> "validate"]]
         /\ UNCHANGED <<pc, req>>
    ELSE /\ pc' = [pc EXCEPT ![t] = "connect"]
         /\ req' = [req EXCEPT ![t] = r]
         /\ outcome' = [outcome EXCEPT ![t] = NoOutcome]
         /\ UNCHANGED transfer_requests

Receive(t) ==
  /\ FirstFree(t)
  /\ nreq < MaxRequests
  /\ \E r \in TransferRequest : Validate(t, r)
  /\ response' = [response EXCEPT ![t] = NoResponse]
  /\ nreq' = nreq + 1
  /\ UNCHANGED <<store, rowLock, locals, txState, account_balance, clock, commits,
                 faulted>>

\* with self.pool.connection() as conn: with conn.transaction():
Connect(t) ==
  /\ pc[t] = "connect"
  /\ InUse < PoolMaxSize
  /\ pc' = [pc EXCEPT ![t] = "dup"]
  /\ UNCHANGED <<store, rowLock, req, locals, txState, outcome, response,
                 metricsState, clock, commits, faulted, nreq>>

DupFoundNever(t) == FALSE

\* SELECT 1 FROM processed_ops ...: sees committed rows only
DupFound(t) ==
  /\ req[t].operation_id # ""
  /\ req[t].operation_id \in processed_ops

DupCheck(t) ==
  /\ pc[t] = "dup"
  /\ IF DupFound(t)
       THEN /\ transfer_requests' = Inc("duplicate")
            /\ response' = [response EXCEPT ![t] =
                 [status |-> "ok", message |-> "operation already processed",
                  balances |-> NoBalances]]
            /\ pc' = [pc EXCEPT ![t] = "commit"]
       ELSE /\ pc' = [pc EXCEPT ![t] = "lockFrom"]
            /\ UNCHANGED <<transfer_requests, response>>
  /\ UNCHANGED <<store, rowLock, req, locals, txState, outcome,
                 account_balance, clock, commits, faulted, nreq>>

\* SELECT balance FROM accounts WHERE id=.. FOR UPDATE: no row, or the row
\* lock is taken (waiting while another transaction holds it) and the latest
\* committed version is read
CanLockNoForUpdate(t, id) == TRUE

CanLock(t, id) == rowLock[id] \in {NoThread, t}

SelectFrom(t) ==
  /\ pc[t] = "lockFrom"
  /\ LET id == req[t].from_account_id IN
       IF id \in Existing
         THEN /\ CanLock(t, id)
              /\ rowLock' = [rowLock EXCEPT ![id] = t]
              /\ from_row' = [from_row EXCEPT ![t] = ReadRow(t, id)]
         ELSE /\ from_row' = [from_row EXCEPT ![t] = None]
              /\ UNCHANGED rowLock
  /\ pc' = [pc EXCEPT ![t] = "lockTo"]
  /\ UNCHANGED <<store, req, to_row, new_from, new_to, now, txState, outcome,
                 response, metricsState, clock, commits, faulted, nreq>>

SelectTo(t) ==
  /\ pc[t] = "lockTo"
  /\ LET id == req[t].to_account_id IN
       IF id \in Existing
         THEN /\ CanLock(t, id)
              /\ rowLock' = [rowLock EXCEPT ![id] = t]
              /\ to_row' = [to_row EXCEPT ![t] = ReadRow(t, id)]
         ELSE /\ to_row' = [to_row EXCEPT ![t] = None]
              /\ UNCHANGED rowLock
  /\ pc' = [pc EXCEPT ![t] = "check"]
  /\ UNCHANGED <<store, req, from_row, new_from, new_to, now, txState, outcome,
                 response, metricsState, clock, commits, faulted, nreq>>

InsufficientNever(t) == FALSE

\* from_balance < req.amount
Insufficient(t) == FLt(from_row[t], req[t].amount)

NotFoundFromOnly(t) == from_row[t] = None

\* not from_row or not to_row
NotFound(t) == from_row[t] = None \/ to_row[t] = None

\* the two business checks and the computation of the new balances
Check(t) ==
  /\ pc[t] = "check"
  /\ IF NotFound(t)
       THEN /\ transfer_requests' = Inc("account_not_found")
            /\ Rollback(t, "account_not_found")
       ELSE IF Insufficient(t)
       THEN /\ transfer_requests' = Inc("insufficient_funds")
            /\ Rollback(t, "insufficient_funds")
       ELSE /\ new_from' = [new_from EXCEPT ![t] = FSub(from_row[t], req[t].amount)]
            /\ new_to' = [new_to EXCEPT ![t] = FAdd(to_row[t], req[t].amount)]
            /\ pc' = [pc EXCEPT ![t] = "updFrom"]
            /\ UNCHANGED <<store, rowLock, from_row, to_row, now, txState,
                           outcome, response, transfer_requests, commits, faulted, req>>
  /\ UNCHANGED <<account_balance, clock, nreq>>

UpdateFromAutocommit(t) ==
  /\ pc[t] = "updFrom"
  /\ accounts' = [accounts EXCEPT ![req[t].from_account_id] = new_from[t]]
  /\ pc' = [pc EXCEPT ![t] = "updTo"]
  /\ UNCHANGED <<ledger, processed_ops, rowLock, req, locals, txState, outcome,
                 response, metricsState, clock, commits, faulted, nreq>>

\* UPDATE accounts SET balance=new_from WHERE id=from
UpdateFrom(t) ==
  /\ pc[t] = "updFrom"
  /\ txAccounts' = [txAccounts EXCEPT ![t][req[t].from_account_id] = new_from[t]]
  /\ pc' = [pc EXCEPT ![t] = "updTo"]
  /\ UNCHANGED <<store, rowLock, req, locals, txLedger, txOps, outcome,
                 response, metricsState, clock, commits, faulted, nreq>>

UpdateToWritesNewFrom(t) ==
  /\ pc[t] = "updTo"
  /\ txAccounts' = [txAccounts EXCEPT ![t][req[t].to_account_id] = new_from[t]]
  /\ pc' = [pc EXCEPT ![t] = "insDebit"]
  /\ UNCHANGED <<store, rowLock, req, locals, txLedger, txOps, outcome,
                 response, metricsState, clock, commits, faulted, nreq>>

\* UPDATE accounts SET balance=new_to WHERE id=to
UpdateTo(t) ==
  /\ pc[t] = "updTo"
  /\ txAccounts' = [txAccounts EXCEPT ![t][req[t].to_account_id] = new_to[t]]
  /\ pc' = [pc EXCEPT ![t] = "insDebit"]
  /\ UNCHANGED <<store, rowLock, req, locals, txLedger, txOps, outcome,
                 response, metricsState, clock, commits, faulted, nreq>>

LedgerEntry(type, id, amount, at) ==
  [type |-> type, accountId |-> id, amount |-> amount, at |-> at]

\* now = datetime.utcnow(); INSERT INTO ledger ... DEBIT
InsertDebit(t) ==
  /\ pc[t] = "insDebit"
  /\ now' = [now EXCEPT ![t] = clock]
  /\ clock' = clock + 1
  /\ txLedger' = [txLedger EXCEPT ![t] =
       Append(@, LedgerEntry("DEBIT", req[t].from_account_id, req[t].amount, clock))]
  /\ pc' = [pc EXCEPT ![t] = "insCredit"]
  /\ UNCHANGED <<store, rowLock, req, from_row, to_row, new_from, new_to,
                 txAccounts, txOps, outcome, response, metricsState, commits, faulted, nreq>>

InsertCreditOwnTimestamp(t) ==
  /\ pc[t] = "insCredit"
  /\ txLedger' = [txLedger EXCEPT ![t] =
       Append(@, LedgerEntry("CREDIT", req[t].to_account_id, req[t].amount, clock))]
  /\ pc' = [pc EXCEPT ![t] = "insOp"]
  /\ UNCHANGED <<store, rowLock, req, locals, txAccounts, txOps, outcome,
                 response, metricsState, clock, commits, faulted, nreq>>

\* INSERT INTO ledger ... CREDIT
InsertCredit(t) ==
  /\ pc[t] = "insCredit"
  /\ txLedger' = [txLedger EXCEPT ![t] =
       Append(@, LedgerEntry("CREDIT", req[t].to_account_id, req[t].amount, now[t]))]
  /\ pc' = [pc EXCEPT ![t] = "insOp"]
  /\ UNCHANGED <<store, rowLock, req, locals, txAccounts, txOps, outcome,
                 response, metricsState, clock, commits, faulted, nreq>>

\* processed_ops(operation_id PRIMARY KEY): a committed row with this key exists
OpIdConflict(t) == req[t].operation_id \in processed_ops

\* another open transaction inserted the same key: the INSERT waits for it
OpIdPending(t) ==
  \E u \in Threads \ {t} : req[t].operation_id \in txOps[u]

InsertOpAutocommit(t) ==
  /\ pc[t] = "insOp"
  /\ processed_ops' = processed_ops \cup
       (IF req[t].operation_id = "" THEN {} ELSE {req[t].operation_id})
  /\ pc' = [pc EXCEPT ![t] = "metrics"]
  /\ UNCHANGED <<accounts, ledger, rowLock, req, locals, txState, outcome,
                 response, metricsState, clock, commits, faulted, nreq>>

InsertOpSkipped(t) ==
  /\ pc[t] = "insOp"
  /\ pc' = [pc EXCEPT ![t] = "metrics"]
  /\ UNCHANGED <<store, rowLock, req, locals, txState, outcome, response,
                 metricsState, clock, commits, faulted, nreq>>

\* if req.operation_id: INSERT INTO processed_ops
InsertOp(t) ==
  /\ pc[t] = "insOp"
  /\ IF req[t].operation_id = ""
       THEN /\ pc' = [pc EXCEPT ![t] = "metrics"]
            /\ UNCHANGED <<store, rowLock, locals, txState, outcome, response,
                           commits, faulted, req>>
       ELSE /\ ~OpIdPending(t)
            /\ IF OpIdConflict(t)
                 THEN Rollback(t, "unique_violation")
                 ELSE /\ txOps' = [txOps EXCEPT ![t] = @ \cup {req[t].operation_id}]
                      /\ pc' = [pc EXCEPT ![t] = "metrics"]
                      /\ UNCHANGED <<store, rowLock, locals, txAccounts, txLedger,
                                     outcome, response, commits, faulted, req>>
  /\ UNCHANGED <<metricsState, clock, nreq>>

\* gauge and counter updates, then the return statement builds the response
Metrics(t) ==
  /\ pc[t] = "metrics"
  /\ account_balance' = [account_balance EXCEPT
       ![req[t].from_account_id] = new_from[t],
       ![req[t].to_account_id] = new_to[t]]
  /\ transfer_requests' = Inc("success")
  /\ response' = [response EXCEPT ![t] =
       [status |-> "ok", message |-> "transfer completed",
        balances |-> [NoBalances EXCEPT
           ![req[t].from_account_id] = new_from[t],
           ![req[t].to_account_id] = new_to[t]]]]
  /\ pc' = [pc EXCEPT ![t] = "commit"]
  /\ UNCHANGED <<store, rowLock, req, locals, txState, outcome, clock, commits, faulted, nreq>>

\* the accounts table once thread t's row versions are committed
Committed(t) ==
  [a \in Existing |-> IF txAccounts[t][a] # None THEN txAccounts[t][a] ELSE accounts[a]]

\* conn.transaction() exits normally: COMMIT, locks released, response returned
Commit(t) ==
  /\ pc[t] = "commit"
  /\ accounts' = Committed(t)
  /\ ledger' = ledger \o txLedger[t]
  /\ processed_ops' = processed_ops \cup txOps[t]
  /\ IF response[t].message = "transfer completed"
       THEN /\ commits' = Append(commits,
                 [from |-> req[t].from_account_id, to |-> req[t].to_account_id,
                  amount |-> req[t].amount, op |-> req[t].operation_id])
            /\ EndRequest(t, "success", response[t])
       ELSE /\ commits' = commits
            /\ EndRequest(t, "duplicate", response[t])
  /\ faulted' = faulted
  /\ UNCHANGED <<metricsState, clock, nreq>>

\* statements that talk to the database and can raise psycopg.Error
FailPoints == {"connect", "dup", "lockFrom", "lockTo", "updFrom", "updTo",
               "insDebit", "insCredit", "insOp", "commit"}

\* a storage fault (connection lost, timeout, failed commit) at a statement
Fail(t) ==
  /\ pc[t] \in FailPoints
  /\ Rollback(t, "storage_error")
  /\ UNCHANGED <<metricsState, clock, nreq>>

\* the account whose row lock thread t is about to request
Wanted(t) ==
  IF pc[t] = "lockFrom" THEN req[t].from_account_id
  ELSE IF pc[t] = "lockTo" THEN req[t].to_account_id
  ELSE ""

Blocked(t) == Wanted(t) \in Existing /\ ~CanLock(t, Wanted(t))

Deadlocked(t, u) ==
  /\ Blocked(t) /\ Blocked(u)
  /\ rowLock[Wanted(t)] = u
  /\ rowLock[Wanted(u)] = t

\* the server's deadlock detector aborts a transaction of a wait cycle
DeadlockAbort(t) ==
  /\ \E u \in Threads \ {t} : Deadlocked(t, u)
  /\ Rollback(t, "deadlock_detected")
  /\ UNCHANGED <<metricsState, clock, nreq>>

Next ==
  \E t \in Threads :
    \/ Receive(t)
    \/ Connect(t)
    \/ DupCheck(t)
    \/ SelectFrom(t)
    \/ SelectTo(t)
    \/ Check(t)
    \/ UpdateFrom(t)
    \/ UpdateTo(t)
    \/ InsertDebit(t)
    \/ InsertCredit(t)
    \/ InsertOp(t)
    \/ Metrics(t)
    \/ Commit(t)
    \/ Fail(t)
    \/ DeadlockAbort(t)

Spec == Init /\ [][Next]_vars

TypeOK ==
  /\ \A a \in Existing : accounts[a].kind \in {"num", "nan"}
  /\ \A t \in Threads : pc[t] \in InTx \cup {"idle", "connect"}
  /\ nreq \in 0..MaxRequests

\* ------------------------------------------------------------ properties
\* the accounts table after transfer c is applied to table acc
ApplyTransfer(acc, c) ==
  [acc EXCEPT ![c.from] = FSub(acc[c.from], c.amount),
              ![c.to] = FAdd(acc[c.to], c.amount)]

RECURSIVE ApplyAll(_, _)
ApplyAll(acc, cs) ==
  IF cs = <<>> THEN acc ELSE ApplyAll(ApplyTransfer(acc, Head(cs)), Tail(cs))

CommitsWith(op) == {i \in DOMAIN commits : commits[i].op = op}

\* a step in which thread t's request ends
Ends(t) == pc[t] # "idle" /\ pc'[t] = "idle"

\* a step in which a request arrives at thread t
Arrives(t) == nreq' = nreq + 1 /\ FirstFree(t)

Faults == {"storage_error", "deadlock_detected"}

\* C1: the sum of all committed balances always equals the sum at seed time
C1_Conservation ==
  FAdd(accounts["A"], accounts["B"]) = Num(SeedA + SeedB)

\* C2: for every operation id at most one committed transfer carries it, and
\* the committed ledger holds exactly one pair of entries per committed transfer
C2_AtMostOnce ==
  /\ \A op \in OpIds \ {""} : Cardinality(CommitsWith(op)) <= 1
  /\ Len(ledger) = 2 * Len(commits)

C2_Witness ==
  \E t \in Threads :
    /\ outcome[t].operation_id = "op1"
    /\ outcome[t].result \in {"duplicate", "unique_violation"}
    /\ Cardinality(CommitsWith("op1")) = 1

\* C4: every committed balance is >= 0
C4_NoNegativeBalances ==
  \A a \in Existing : FLe(Num(0), accounts[a])

\* C5: the committed balances are those obtained by applying the committed
\* transfers one after another, in commit order, to the seeded balances
C5_NoLostUpdates ==
  accounts = ApplyAll(seed, commits)

C5_Witness ==
  /\ Len(commits) >= 2
  /\ accounts # seed

\* the committed effect of thread t's transfer, from the values it computed
TransferEffect(t) ==
  /\ accounts' = [accounts EXCEPT ![req[t].from_account_id] = new_from[t],
                                  ![req[t].to_account_id] = new_to[t]]
  /\ ledger' = ledger \o
       << LedgerEntry("DEBIT", req[t].from_account_id, req[t].amount, now[t]),
          LedgerEntry("CREDIT", req[t].to_account_id, req[t].amount, now[t]) >>
  /\ processed_ops' = processed_ops \cup
       (IF req[t].operation_id = "" THEN {} ELSE {req[t].operation_id})

\* C3: the committed store changes only in the step that ends a successful
\* transfer, and then both balances, both ledger entries and the operation id
\* change together; every other step, a failure at any statement included,
\* leaves accounts, ledger and registry as they were
C3_Atomicity ==
  [][ /\ store' # store =>
           \E t \in Threads :
              Ends(t) /\ outcome'[t].result = "success" /\ TransferEffect(t)
      /\ \A t \in Threads :
           (Ends(t) /\ outcome'[t].result = "success") => TransferEffect(t)
    ]_vars

C3_Witness ==
  \E t \in Threads :
    /\ outcome[t].result = "storage_error"
    /\ outcome[t].at = "insDebit"
    /\ accounts = seed
    /\ ledger = <<>>

\* C6: no state has two transactions each holding one account's row lock
\* while waiting for the row lock the other holds
C6_DeadlockFree ==
  ~ \E t, u \in Threads : \E a, b \in Existing :
      /\ t # u /\ a # b
      /\ rowLock[a] = t /\ rowLock[b] = u
      /\ Wanted(t) = b /\ Wanted(u) = a

\* a thread that holds the lock of its source row and is about to lock its
\* destination row
LocksSecond(t) ==
  /\ pc[t] = "lockTo"
  /\ req[t].from_account_id \in Existing
  /\ req[t].to_account_id \in Existing

\* C7: there is one order of the account ids in which every transfer takes
\* its two row locks, whichever account is the source
C7_FixedLockOrder ==
  \E rank \in [Existing -> 1..Cardinality(Existing)] :
    /\ \A a, b \in Existing : a # b => rank[a] # rank[b]
    /\ \A t \in Threads :
         LocksSecond(t) => rank[req[t].from_account_id] < rank[req[t].to_account_id]

\* the transfer that thread t's request asks for, as the history records it
Asked(t) ==
  [from |-> req[t].from_account_id, to |-> req[t].to_account_id,
   amount |-> req[t].amount, op |-> req[t].operation_id]

\* C8: when a request carrying an operation id ends (without a storage
\* fault) and a request with the same operation id and the same fields has
\* committed, the request either is that committed one or returns the
\* duplicate outcome
C8_ConcurrentDuplicate ==
  [][ \A t \in Threads :
        ( /\ Ends(t)
          /\ req[t].operation_id # ""
          /\ \E i \in DOMAIN commits' : commits'[i] = Asked(t)
          /\ outcome'[t].result \notin Faults )
        => outcome'[t].result \in {"success", "duplicate"}
    ]_vars

DuplicateResponse ==
  [status |-> "ok", message |-> "operation already processed",
   balances |-> NoBalances]

\* C9 as stated: whenever a request whose operation id is already in the
\* registry ends (without a storage fault), whatever its other fields are, it
\* returns status=ok without balances and the store is unchanged
C9_DuplicateWhateverFields ==
  [][ \A t \in Threads :
        ( /\ pc'[t] = "idle"
          /\ outcome'[t] # outcome[t]
          /\ outcome'[t].operation_id # ""
          /\ outcome'[t].operation_id \in processed_ops
          /\ outcome'[t].result \notin Faults )
        => /\ outcome'[t].result = "duplicate"
           /\ response'[t] = DuplicateResponse
           /\ store' = store
    ]_vars

\* C9 amended: a request that passed validation and finds its operation id in
\* the committed registry at the lookup goes straight to the return with
\* status=ok and no balances, and neither the lookup nor the return changes
\* accounts, ledger, registry, row locks or the transaction's writes
C9_DuplicateSuppressed ==
  [][ \A t \in Threads :
        /\ ( /\ pc[t] = "dup" /\ pc'[t] # "dup"
             /\ req[t].operation_id # ""
             /\ req[t].operation_id \in processed_ops )
           => /\ store' = store /\ rowLock' = rowLock
              /\ txAccounts' = txAccounts /\ txLedger' = txLedger /\ txOps' = txOps
              /\ \/ pc'[t] = "commit" /\ response'[t] = DuplicateResponse
                 \/ outcome'[t].result = "storage_error"
        /\ ( /\ pc[t] = "commit" /\ response[t] = DuplicateResponse /\ Ends(t) )
           => /\ store' = store
              /\ \/ /\ outcome'[t].result = "duplicate"
                    /\ response'[t] = DuplicateResponse
                 \/ outcome'[t].result = "storage_error"
    ]_vars

C9_Witness ==
  \E t \in Threads :
    /\ outcome[t].result = "duplicate"
    /\ outcome[t].operation_id = "op1"
    /\ response[t] = DuplicateResponse
    /\ Len(commits) = 1
    /\ accounts # seed

\* the validation rules as the claim lists them
RequestValid(r) ==
  /\ r.from_account_id # "" /\ r.to_account_id # ""
  /\ r.from_account_id # r.to_account_id
  /\ ~(r.amount.kind = "num" /\ r.amount.v <= 0)

\* C10: a request with an empty or equal account id or an amount <= 0 never
\* gets past validation, and the step that rejects it takes no connection
\* and changes no account, ledger entry, registry entry, row lock or
\* transaction
C10_ValidationFailsFast ==
  /\ [](\A t \in Threads : pc[t] # "idle" => RequestValid(req[t]))
  /\ [][ \A t \in Threads :
           (Arrives(t) /\ outcome'[t].result = "validation_error")
           => /\ store' = store /\ rowLock' = rowLock
              /\ pc' = pc /\ InUse' = InUse
              /\ txAccounts' = txAccounts /\ txLedger' = txLedger /\ txOps' = txOps
       ]_vars

C10_Witness ==
  \E t \in Threads :
    /\ outcome[t].result = "validation_error"
    /\ Len(commits) = 1
    /\ accounts # seed

\* thread t holds no row lock and has no open transaction after the step
Clean(t) ==
  /\ \A a \in Existing : rowLock'[a] # t
  /\ txAccounts'[t] = NoRows /\ txLedger'[t] = <<>> /\ txOps'[t] = {}

\* C11: a transfer whose source balance, as read under the row lock, is less
\* than the amount ends with insufficient funds, a 400; that step changes no
\* account, ledger entry or registry entry and leaves the thread without row
\* lock or open transaction
C11_InsufficientFunds ==
  [][ \A t \in Threads :
        /\ ( /\ pc[t] = "check" /\ pc'[t] # "check"
             /\ from_row[t] # None /\ to_row[t] # None
             /\ from_row[t].kind = "num" /\ req[t].amount.kind = "num"
             /\ from_row[t].v < req[t].amount.v )
           => (Ends(t) /\ outcome'[t].result = "insufficient_funds")
        /\ (Ends(t) /\ outcome'[t].result = "insufficient_funds")
           => /\ HttpStatus(outcome'[t].result) = 400
              /\ store' = store
              /\ response'[t] = NoResponse
              /\ Clean(t)
    ]_vars

C11_Witness ==
  \E t \in Threads :
    /\ outcome[t].result = "insufficient_funds"
    /\ accounts = seed /\ ledger = <<>> /\ processed_ops = {}
    /\ \A a \in Existing : rowLock[a] = NoThread

\* C12: a transfer whose source or destination names no account ends with
\* account not found, a 400; that step changes no account, ledger entry or
\* registry entry and releases the row lock taken on the account that exists
C12_AccountNotFound ==
  [][ \A t \in Threads :
        /\ ( /\ pc[t] = "check" /\ pc'[t] # "check"
             /\ ( req[t].from_account_id \notin Existing
                  \/ req[t].to_account_id \notin Existing ) )
           => (Ends(t) /\ outcome'[t].result = "account_not_found")
        /\ (Ends(t) /\ outcome'[t].result = "account_not_found")
           => /\ HttpStatus(outcome'[t].result) = 400
              /\ store' = store
              /\ response'[t] = NoResponse
              /\ Clean(t)
    ]_vars

C12_Witness ==
  \E t \in Threads :
    /\ outcome[t].result = "account_not_found"
    /\ accounts # seed
    /\ \A a \in Existing : rowLock[a] = NoThread

\* the i-th committed transfer and its two ledger rows agree
PairOf(i) ==
  LET d == ledger[2 * i - 1]
      c == ledger[2 * i]
  IN /\ d.type = "DEBIT" /\ d.accountId = commits[i].from
     /\ c.type = "CREDIT" /\ c.accountId = commits[i].to
     /\ d.amount = commits[i].amount /\ c.amount = commits[i].amount
     /\ d.at = c.at
     /\ d.accountId \in DOMAIN accounts /\ c.accountId \in DOMAIN accounts

\* C13: the committed ledger is, in order, one DEBIT on the source and one
\* CREDIT on the destination per committed transfer, with its amount and one
\* timestamp, on existing accounts; it only grows by appending, and a request
\* that ends without success adds nothing to it
C13_DoubleEntryLedger ==
  /\ [](/\ Len(ledger) = 2 * Len(commits)
        /\ \A i \in DOMAIN commits : PairOf(i))
  /\ [][ /\ Len(ledger') >= Len(ledger)
         /\ SubSeq(ledger', 1, Len(ledger)) = ledger
         /\ \A t \in Threads :
              (Ends(t) /\ outcome'[t].result # "success") => ledger' = ledger
       ]_vars

C13_Witness ==
  /\ Len(commits) = 2
  /\ Len(ledger) = 4
  /\ ledger[1].at # ledger[3].at
  /\ \E t \in Threads : outcome[t].result = "success"

\* C14: the step that ends a successful transfer of x from F to T commits
\* balance(F) = old(F) - x and balance(T) = old(T) + x, old being the balance
\* the transfer read under the lock, changes no other account, and returns
\* status ok with exactly these two committed balances
C14_TransferEffect ==
  [][ \A t \in Threads :
        (Ends(t) /\ outcome'[t].result = "success") =>
          LET F == req[t].from_account_id
              T == req[t].to_account_id
              x == req[t].amount
          IN /\ from_row[t] = accounts[F] /\ to_row[t] = accounts[T]
             /\ accounts'[F] = FSub(from_row[t], x)
             /\ accounts'[T] = FAdd(to_row[t], x)
             /\ \A a \in Existing \ {F, T} : accounts'[a] = accounts[a]
             /\ response'[t].status = "ok"
             /\ response'[t].balances =
                  [NoBalances EXCEPT ![F] = accounts'[F], ![T] = accounts'[T]]
    ]_vars

C14_Witness ==
  \E t \in Threads :
    /\ outcome[t].result = "success"
    /\ Len(commits) = 1
    /\ commits[1] = [from |-> "A", to |-> "B", amount |-> Num(400), op |-> ""]
    /\ accounts = [a \in Existing |-> IF a = "A" THEN Num(600) ELSE Num(900)]
    /\ response[t].balances["A"] = Num(600)
    /\ response[t].balances["B"] = Num(900)

C16_FiniteAmount ==
  \A t \in Threads :
    pc[t] # "idle" => (req[t].amount.kind = "num" /\ req[t].amount.v > 0)

Quiescent == \A t \in Threads : pc[t] = "idle"

\* C17: whenever no transfer is in flight, the gauge of each account equals
\* its committed balance
C17_GaugeIsCommitted ==
  Quiescent => \A a \in Existing : account_balance[a] = accounts[a]

\* C19: whenever no transfer is in flight, the success counter equals the
\* number of committed transfers
C19_SuccessCountsCommits ==
  Quiescent => transfer_requests["success"] = Len(commits)

\* C18: an operation id is in the committed registry if and only if exactly
\* one committed transfer carried it; the registry only grows, and a request
\* that ends without success leaves it as it was
C18_RegistryContent ==
  /\ [](\A op \in OpIds \ {""} :
          op \in processed_ops <=> Cardinality(CommitsWith(op)) = 1)
  /\ []("" \notin processed_ops)
  /\ [][ /\ processed_ops \subseteq processed_ops'
         /\ \A t \in Threads :
              (Ends(t) /\ outcome'[t].result # "success")
              => processed_ops' = processed_ops
       ]_vars

C18_Witness ==
  /\ Quiescent
  /\ "op1" \in faulted
  /\ processed_ops = {"op1"}
  /\ Len(commits) = 1
  /\ commits[1].op = "op1"

\* C20: a thread whose request has returned holds no row lock and has no
\* uncommitted row left, and every row lock is held by a thread that is inside
\* its transaction with a pooled connection
C20_ResourceRelease ==
  /\ \A t \in Threads :
       pc[t] \in {"idle", "connect"} =>
         /\ \A a \in Existing : rowLock[a] # t
         /\ txAccounts[t] = NoRows /\ txLedger[t] = <<>> /\ txOps[t] = {}
  /\ \A a \in Existing :
       rowLock[a] # NoThread => pc[rowLock[a]] \in InTx
  /\ InUse <= PoolMaxSize

C20_Witness ==
  \E t, u \in Threads :
    /\ t # u
    /\ pc[t] = "idle"
    /\ outcome[t].result = "storage_error"
    /\ outcome[t].at = "updTo"
    /\ rowLock["A"] = u

====
